---- MODULE Spec2Model ----
(***************************************************************************)
(* Transactional repository base (PrismaRepositoryBase) with the request   *)
(* context (RequestContextService), the user and wallet repositories, the  *)
(* aggregates' event buffers and the create-user command.                  *)
(*                                                                         *)
(* Each request runs its code on a stack of frames: "tx" is a running      *)
(* transaction(handler) call, "pub" a repository write that is publishing  *)
(* the events of its aggregate, "sub" a running event subscriber.  The     *)
(* store is a committed database plus, per store-level transaction, the    *)
(* list of writes it has pending; a store call that fails has no effect.   *)
(***************************************************************************)
EXTENDS Integers, Sequences, FiniteSets, TLC

\* ------------------------------------------------------------------ bounds
\* what the code of one request may do under Spec
MaxUsers == 2        \* user aggregates built in memory (each may get one wallet)
MaxTx == 3           \* transaction(handler) calls
MaxChanges == 1      \* changeAddress calls
MaxOps == 2          \* repository calls
\* under SpecTransactions: every repository operation and nested transaction calls
TxUsers == 2
TxCalls == 2
TxOps == 2
\* under SpecEvents: the writes, the business operations and the subscribers
EvUsers == 1
EvCalls == 1
EvChanges == 1
EvOps == 2
\* under SpecBatch: inserts of several aggregates in one call
BatchUsers == 2
BatchChanges == 1
BatchOps == 1
\* under SpecReads: reads over stored content
MaxSeed == 5
ReadOps == 1
\* under SpecListing: requests of one client one after the other, listings of another
ListUsers == 1
ListOps == 2
ListReads == 1
\* under SpecConcurrent: subscribers of one batch insert that call transaction()
ConcUsers == 2
ConcOps == 1
PagingUsers == 1    \* users another request creates while a page is read
PagingOps == 2      \* repository calls of that request
PagingReads == 1    \* paginated reads
AddrSeed == 2       \* users, each with a wallet, in the store before an address update
AddrUsers == 1      \* users created but not inserted
AddrChanges == 1    \* address changes
AddrOps == 2        \* repository calls
\* under SpecContext: two requests at the same time, transaction calls of each
CtxCalls == 2
\* under SpecRequests: two requests served at the same time, each with this much
ReqUsers == 1
ReqCalls == 1
ReqOps == 1

\* --------------------------------------------------------------- constants
Requests == {"r1", "r2"}
Undefined == -1      \* ctx.transactionConnection when no transaction is registered
Prisma == 0          \* this.prisma, the default pooled connection
EmailSeq == <<"a@x", "b@x">>
Emails == {EmailSeq[i] : i \in 1..Len(EmailSeq)}
InvalidEmails == {"bad", ""}  \* malformed, missing
RequestIds == {"id1", "id2"}
Addresses == {"A1", "A2"}
OtherError == "P1017"        \* a store error that is neither P2002 nor P2025
HandlerOutcomes == {[kind |-> "ok", val |-> "v1"], [kind |-> "err", val |-> "E1"]}
PageLimits == {1, 2}         \* params.limit of findAllPaginated
PageOffsets == {0, 1}        \* params.offset
PageNumbers == {1}           \* params.page
ReadOffsets == {0, 2}        \* offset of a paginated read, page * limit in the requests
ReadPages == {0, 1}          \* page of a paginated read
\* country, street and postalCode of an address
AddressOf(addr) ==
  IF addr = "A1" THEN [country |-> "England", street |-> "Road1", postalCode |-> "P1"]
  ELSE [country |-> "France", street |-> "Road1", postalCode |-> "P2"]
\* country, street, postalCode of the find-users query, each empty when the query gives none
NoFilter == [country |-> "", street |-> "", postalCode |-> ""]
Filters ==
  [country : {"", "England", "France"}, street : {"", "Road1"}, postalCode : {"", "P1", "P2"}]
Faults == {"none", "store", "mapper"}   \* what goes wrong in a read: nothing, the store
                                        \* call, or mapper.toDomain on the record found

VARIABLES
  committed,     \* committed rows: [users, wallets]
  txs,           \* store-level transactions, indexed by handle
  ctx,           \* request context: [requestId, transactionConnection]
  stack,         \* per request: the frames of the running calls
  result,        \* per request: outcome of the call that completed last
  ents,          \* aggregates in memory, indexed by id
  pubLog,        \* events handed to the event bus, in order
  lastOp,        \* per request: the last store call and its connection
  nestedWrites,  \* per request: the writes made by the handler of a nested
                 \* transaction call, each with the handle of that call
  budget         \* per request: what its own code may still do:
                 \* [users, txs, changes, ops]

vars == <<committed, txs, ctx, stack, result, ents, pubLog, lastOp, nestedWrites, budget>>

\* ------------------------------------------------------------ request context
\* RequestContext.currentContext: the context bound to the request whose code is running
CurrentRequestShared(r) == "r1"

CurrentRequest(r) == r

\* getContext(): RequestContext.currentContext.req
GetContext(r) == ctx[CurrentRequest(r)]

GetRequestId(c) == c.requestId

SetRequestId(c, id) == [c EXCEPT !.requestId = id]

GetTransactionConnection(c) == c.transactionConnection

SetTransactionConnection(c, t) == [c EXCEPT !.transactionConnection = t]

CleanTransactionConnection(c) == [c EXCEPT !.transactionConnection = Undefined]

ClientAlwaysPrisma(c) == Prisma

\* get client(): transactionConnection ?? this.prisma
Client(c) ==
  IF c.transactionConnection # Undefined THEN c.transactionConnection ELSE Prisma

\* ------------------------------------------------------------------ store
UserRow(id, email, addr) == [id |-> id, email |-> email, addr |-> addr]

WalletRow(id, userId, balance) == [id |-> id, userId |-> userId, balance |-> balance]

Write(op, table, id, email, addr, userId, balance) ==
  [op |-> op, table |-> table, id |-> id, email |-> email, addr |-> addr,
   userId |-> userId, balance |-> balance]

ApplyOpNoCascade(db, w) ==
  CASE w.op = "create" /\ w.table = "users" ->
         [db EXCEPT !.users = @ \cup {UserRow(w.id, w.email, w.addr)}]
    [] w.op = "create" /\ w.table = "wallets" ->
         [db EXCEPT !.wallets = @ \cup {WalletRow(w.id, w.userId, w.balance)}]
    [] w.op = "delete" /\ w.table = "users" ->
         [db EXCEPT !.users = {u \in @ : u.id # w.id}]
    [] w.op = "delete" /\ w.table = "wallets" ->
         [db EXCEPT !.wallets = {x \in @ : x.id # w.id}]
    [] w.op = "update" /\ w.table = "users" ->
         [db EXCEPT !.users = {IF u.id = w.id THEN [u EXCEPT !.addr = w.addr] ELSE u : u \in @}]
    [] OTHER -> db

ApplyOpUpdateAll(db, w) ==
  IF w.op = "update" /\ w.table = "users"
  THEN [db EXCEPT !.users = {[u EXCEPT !.addr = w.addr] : u \in @}]
  ELSE ApplyOpNoCascade(db, w)

\* effect of one successful store call on a database value
ApplyOp(db, w) ==
  CASE w.op = "create" /\ w.table = "users" ->
         [db EXCEPT !.users = @ \cup {UserRow(w.id, w.email, w.addr)}]
    [] w.op = "create" /\ w.table = "wallets" ->
         [db EXCEPT !.wallets = @ \cup {WalletRow(w.id, w.userId, w.balance)}]
    [] w.op = "delete" /\ w.table = "users" ->
         [users |-> {u \in db.users : u.id # w.id},
          wallets |-> {x \in db.wallets : x.userId # w.id}]
    [] w.op = "delete" /\ w.table = "wallets" ->
         [db EXCEPT !.wallets = {x \in @ : x.id # w.id}]
    [] w.op = "update" /\ w.table = "users" ->
         [db EXCEPT !.users = {IF u.id = w.id THEN [u EXCEPT !.addr = w.addr] ELSE u : u \in @}]
    [] OTHER -> db

RECURSIVE ApplyAll(_, _)
ApplyAll(db, ws) ==
  IF ws = <<>> THEN db ELSE ApplyAll(ApplyOp(db, Head(ws)), Tail(ws))

\* what a connection sees: the committed rows and its own pending writes
ViewOf(db, T, c) == IF c = Prisma THEN db ELSE ApplyAll(db, T[c].writes)

View(c) == ViewOf(committed, txs, c)

\* result code of a store call on the rows db
StoreCode(db, w) ==
  CASE w.op = "create" /\ w.table = "users" ->
         IF \E u \in db.users : u.id = w.id \/ u.email = w.email THEN "P2002" ELSE "ok"
    [] w.op = "create" /\ w.table = "wallets" ->
         IF \E x \in db.wallets : x.id = w.id \/ x.userId = w.userId THEN "P2002"
         ELSE IF ~ \E u \in db.users : u.id = w.userId THEN "P2003"
         ELSE "ok"
    [] w.op = "delete" /\ w.table = "users" ->
         IF \E u \in db.users : u.id = w.id THEN "ok" ELSE "P2025"
    [] w.op = "delete" /\ w.table = "wallets" ->
         IF \E x \in db.wallets : x.id = w.id THEN "ok" ELSE "P2025"
    [] w.op = "update" /\ w.table = "users" ->
         IF \E u \in db.users : u.id = w.id THEN "ok" ELSE "P2025"
    [] OTHER -> OtherError

\* a write waits while another open transaction holds a pending row it collides with
Blocked(c, w) ==
  \E t \in 1..Len(txs) :
    /\ t # c
    /\ txs[t].status = "open"
    /\ \E i \in 1..Len(txs[t].writes) :
         LET p == txs[t].writes[i] IN
           \/ /\ w.op = "create" /\ p.op = "create" /\ p.table = w.table
              /\ \/ p.id = w.id
                 \/ w.table = "users" /\ p.email = w.email
                 \/ w.table = "wallets" /\ p.userId = w.userId
           \/ /\ w.op \in {"delete", "update"} /\ w.table = "users"
              /\ \/ p.table = "users" /\ p.id = w.id
                 \/ p.table = "wallets" /\ p.op = "create" /\ p.userId = w.id

\* ------------------------------------------------------------------ aggregates
Event(kind, agg, n) == [kind |-> kind, agg |-> agg, n |-> n]

Entity(kind, owner, email, addr, userId, events) ==
  [kind |-> kind, owner |-> owner, email |-> email, addr |-> addr, userId |-> userId,
   valid |-> TRUE, events |-> events, added |-> Len(events)]

UserEntityCreateNoEvent(id, owner, email, addr) ==
  Entity("user", owner, email, addr, 0, <<>>)

\* UserEntity.create: new id, then addEvent(UserCreatedDomainEvent)
UserEntityCreate(id, owner, email, addr) ==
  Entity("user", owner, email, addr, 0, <<Event("UserCreated", id, 1)>>)

\* WalletEntity.create({ userId }): balance 0, one created event
WalletEntityCreate(id, owner, userId) ==
  Entity("wallet", owner, "", "", userId, <<Event("WalletCreated", id, 1)>>)

ToWriteBalanceOne(op, id, e) ==
  IF e.kind = "user"
  THEN Write(op, "users", id, e.email, e.addr, 0, 0)
  ELSE Write(op, "wallets", id, "", "", e.userId, 1)

\* mapper.toPersistence followed by the store call of the repository operation
ToWrite(op, id, e) ==
  IF e.kind = "user"
  THEN Write(op, "users", id, e.email, e.addr, 0, 0)
  ELSE Write(op, "wallets", id, "", "", e.userId, 0)

\* a listener the application has subscribed to UserAddressChanged on the event bus
HasListener(kind) == kind = "UserAddressChanged"

HasSubscriberListenerOnly(kind) == HasListener(kind)

\* the events with a registered subscriber: UserCreatedEventHandler on UserCreated,
\* besides the listeners
HasSubscriber(kind) == kind = "UserCreated" \/ HasListener(kind)

\* ------------------------------------------------------------------ frames
\* the code of a request runs in the thread of the request; the publish steps that
\* writeQuery starts for the aggregates of one batch (Promise.all, lines 153-157) run
\* each in a thread of its own
TaskId(r, i) == r \o "." \o ToString(i)

Tasks(r) == {TaskId(r, i) : i \in 1..BatchUsers}

AllTasks == UNION {Tasks(r) : r \in Requests}

Threads == Requests \cup AllTasks

Owner(th) == IF th \in Requests THEN th ELSE CHOOSE r \in Requests : th \in Tasks(r)

NoEvent == Event("none", 0, 0)

TxFrame(t, svc, agg) ==
  [k |-> "tx", t |-> t, svc |-> svc, step |-> "run", agg |-> agg, op |-> "none",
   conn |-> Undefined, q |-> <<>>, ev |-> NoEvent, failed |-> FALSE, err |-> "none"]

PubFrame(op, agg, conn, q) ==
  [k |-> "pub", t |-> 0, svc |-> "none", step |-> "run", agg |-> agg, op |-> op,
   conn |-> conn, q |-> q, ev |-> NoEvent, failed |-> FALSE, err |-> "none"]

\* Promise.all([findMany(...), count(...)]) of a paginated read: q is the answer of
\* the page query, t the answer of the count query, step tells which have answered
ReadFrame(op, conn) ==
  [k |-> "read", t |-> 0, svc |-> "none", step |-> "run", agg |-> 0, op |-> op,
   conn |-> conn, q |-> <<>>, ev |-> NoEvent, failed |-> FALSE, err |-> "none"]

\* the publish steps of a batch: q is the aggregates, t the number of steps started
ParFrame(op, aggs, conn) ==
  [k |-> "par", t |-> 0, svc |-> "none", step |-> "run", agg |-> 0, op |-> op,
   conn |-> conn, q |-> aggs, ev |-> NoEvent, failed |-> FALSE, err |-> "none"]

SubFrame(ev) ==
  [k |-> "sub", t |-> 0, svc |-> "none", step |-> "run", agg |-> ev.agg, op |-> "none",
   conn |-> Undefined, q |-> <<>>, ev |-> ev, failed |-> FALSE, err |-> "none"]

Top(r) == stack[r][Len(stack[r])]

Pop(s) == SubSeq(s, 1, Len(s) - 1)

Depth(s) == Cardinality({i \in 1..Len(s) : s[i].k = "tx"})

\* the caller's own code is running: a request that has not made its top-level call
\* yet, or a handler given to transaction()
AtHandler(r) ==
  IF stack[r] = <<>> THEN result[r].call \in {"none", "create", "setRequestId"}
  ELSE Top(r).k = "tx" /\ Top(r).svc = "free"

NoResult ==
  [call |-> "none", kind |-> "none", val |-> "none", agg |-> 0, conn |-> Undefined,
   subFailed |-> FALSE, svc |-> "none", hkind |-> "none", hval |-> "none",
   data |-> <<>>, count |-> 0, limit |-> 0, page |-> 0]

Res(call, kind, val, agg, conn, subFailed) ==
  [NoResult EXCEPT !.call = call, !.kind = kind, !.val = val, !.agg = agg,
                   !.conn = conn, !.subFailed = subFailed]

\* a call made from the frame on top of s has completed with outcome res
Resume(s, res) ==
  IF s = <<>> THEN s
  ELSE LET f == s[Len(s)] IN
       IF f.k = "tx" /\ f.svc = "free" THEN s
       ELSE [s EXCEPT ![Len(s)] = [f EXCEPT !.step = "done", !.failed = (res.kind = "err"),
                                            !.err = IF res.kind = "err" THEN res.val ELSE "none"]]

\* the arguments of a paginated read
Args(limit, offset, page, filter) ==
  [limit |-> limit, offset |-> offset, page |-> page, filter |-> filter]

NoArgs == Args(0, 0, 0, NoFilter)

\* one call of a store operation: the connection it ran on, its arguments and what
\* went wrong in it
StoreCall(op, conn, flip, args, fault) ==
  [op |-> op, conn |-> conn, flip |-> flip, args |-> args, fault |-> fault]

Budget(users, calls, changes, ops) ==
  [users |-> users, txs |-> calls, changes |-> changes, ops |-> ops]

\* the state after construction, with the budget b[r] for the code of request r
Start(b) ==
  /\ committed = [users |-> {}, wallets |-> {}]
  /\ txs = <<>>
  /\ ctx = [r \in Requests |-> [requestId |-> r, transactionConnection |-> Undefined]]
  /\ stack = [th \in Threads |-> <<>>]
  /\ result = [th \in Threads |-> NoResult]
  /\ ents = <<>>
  /\ pubLog = <<>>
  /\ lastOp = [r \in Requests |-> StoreCall("none", Undefined, 0, NoArgs, "none")]
  /\ nestedWrites = [r \in Requests |-> {}]
  /\ budget = b

\* one request is served, the other one makes no call
Solo(b) == [r \in Requests |-> IF r = "r1" THEN b ELSE Budget(0, 0, 0, 0)]

Init == Start(Solo(Budget(MaxUsers, MaxTx, MaxChanges, MaxOps)))

InitTransactions == Start(Solo(Budget(TxUsers, TxCalls, 0, TxOps)))

InitEvents == Start(Solo(Budget(EvUsers, EvCalls, EvChanges, EvOps)))

InitBatch == Start(Solo(Budget(BatchUsers, 0, BatchChanges, BatchOps)))

\* users that earlier requests have created
SeedUser(id, addr) == UserRow(id, "u" \o ToString(id) \o "@x", addr)

\* the store holds the users of earlier requests when the reads are made
InitReads ==
  \E n \in 0..MaxSeed : \E ad \in [1..n -> Addresses] :
    /\ committed = [users |-> {SeedUser(i, ad[i]) : i \in 1..n}, wallets |-> {}]
    /\ txs = <<>>
    /\ ctx = [r \in Requests |-> [requestId |-> r, transactionConnection |-> Undefined]]
    /\ stack = [th \in Threads |-> <<>>]
    /\ result = [th \in Threads |-> NoResult]
    /\ ents = [i \in 1..n |->
                 [UserEntityCreate(i, "r2", SeedUser(i, ad[i]).email, ad[i])
                    EXCEPT !.events = <<>>]]
    /\ pubLog = <<>>
    /\ lastOp = [r \in Requests |-> StoreCall("none", Undefined, 0, NoArgs, "none")]
    /\ nestedWrites = [r \in Requests |-> {}]
    /\ budget = Solo(Budget(0, 0, 0, ReadOps))

\* the store holds users with their wallets, and the request holds their aggregates
InitAddress ==
  \E n \in 0..AddrSeed : \E ad \in [1..n -> Addresses] :
    /\ committed = [users |-> {SeedUser(i, ad[i]) : i \in 1..n},
                    wallets |-> {WalletRow(n + i, i, 0) : i \in 1..n}]
    /\ txs = <<>>
    /\ ctx = [r \in Requests |-> [requestId |-> r, transactionConnection |-> Undefined]]
    /\ stack = [th \in Threads |-> <<>>]
    /\ result = [th \in Threads |-> NoResult]
    /\ ents = [i \in 1..(2 * n) |->
                 IF i <= n
                 THEN [UserEntityCreate(i, "r1", SeedUser(i, ad[i]).email, ad[i])
                         EXCEPT !.events = <<>>]
                 ELSE [WalletEntityCreate(i, "r1", i - n) EXCEPT !.events = <<>>]]
    /\ pubLog = <<>>
    /\ lastOp = [r \in Requests |-> StoreCall("none", Undefined, 0, NoArgs, "none")]
    /\ nestedWrites = [r \in Requests |-> {}]
    /\ budget = Solo(Budget(AddrUsers, 0, AddrChanges, AddrOps))

\* one request reads a page while the other one creates and deletes users
InitPaging ==
  Start([r \in Requests |-> IF r = "r1" THEN Budget(0, 0, 0, PagingReads)
                                        ELSE Budget(PagingUsers, 0, 0, PagingOps)])

InitListing ==
  Start([r \in Requests |-> IF r = "r1" THEN Budget(ListUsers, ListUsers, 0, ListUsers + ListOps)
                                        ELSE Budget(0, 0, 0, ListReads)])

InitConcurrent == Start(Solo(Budget(ConcUsers, 0, 0, ConcOps)))

InitContext == Start([r \in Requests |-> Budget(0, CtxCalls, 0, 0)])

InitRequests == Start([r \in Requests |-> Budget(ReqUsers, ReqCalls, 0, ReqOps)])

\* ------------------------------------------------------------------ outcomes
Outcome(kind, val) == [kind |-> kind, val |-> val]

InsertOutcomeRethrow(code) == Outcome("err", code)

\* insert, lines 116-129: P2002 becomes ConflictException, anything else is rethrown
InsertOutcome(code) ==
  IF code = "P2002" THEN Outcome("err", "ConflictException") ELSE Outcome("err", code)

DeleteOutcomeRethrow(code) == Outcome("err", code)

\* delete, lines 83-92: P2025 becomes the result false, anything else is rethrown
DeleteOutcome(code) ==
  IF code = "P2025" THEN Outcome("ok", "false") ELSE Outcome("err", code)

\* updateAddress has no catch: every error is rethrown
UpdateOutcome(code) == Outcome("err", code)

FailureOutcomeTranslated(op, code) ==
  IF op = "delete" THEN Outcome("ok", "false") ELSE Outcome("err", "ConflictException")

FailureOutcome(op, code) ==
  CASE op = "insert" -> InsertOutcome(code)
    [] op = "delete" -> DeleteOutcome(code)
    [] OTHER -> UpdateOutcome(code)

\* value returned when the store call and the publish step have both gone through
SuccessOutcome(op) ==
  IF op = "delete" THEN Outcome("ok", "true") ELSE Outcome("ok", "void")

StoreOp(op) ==
  CASE op = "insert" -> "create"
    [] op = "delete" -> "delete"
    [] OTHER -> "update"

ValidateFirstOnly(E, as) == E[as[1]].valid

\* writeQuery, line 142, and delete, line 68: entity.validate() on every aggregate given
Validate(E, as) == \A i \in 1..Len(as) : E[as[i]].valid

\* publish step of one aggregate: drains the buffer of the aggregate
PullEvents(e) == [e EXCEPT !.events = <<>>]

\* publish step: the error it raises when a subscriber failed with err (caught and logged)
PublishError(failed, err) == "none"

PublishUnlessConflict(code) == code # "P2002"

PublishAlways(code) == TRUE

\* writeQuery, lines 151-157, and delete, lines 77-81: the events are published when
\* the awaited store call has returned without throwing
PublishAfter(code) == code = "ok"

EventsToPublishLastFirst(op, e) == [i \in 1..Len(e.events) |-> e.events[Len(e.events) + 1 - i]]

EventsToPublishInsertOnly(op, e) == IF op = "insert" THEN e.events ELSE <<>>

\* writeQuery, lines 153-157, and delete, line 81: every write publishes the buffered
\* events of the aggregate it was given
EventsToPublish(op, e) == e.events

WriteOutcomeThroughCatch(op, failed, err) ==
  IF failed THEN FailureOutcome(op, err) ELSE SuccessOutcome(op)

WriteOutcomeFailOnSubscriber(op, failed, err) ==
  IF failed THEN Outcome("err", err) ELSE SuccessOutcome(op)

\* writeQuery, lines 153-159, and delete, lines 81-92: the value returned after the
\* publish step, or the outcome of the catch block when the publish step has thrown
WriteOutcome(op, failed, err) ==
  IF PublishError(failed, err) = "none" THEN SuccessOutcome(op)
  ELSE FailureOutcome(op, PublishError(failed, err))

\* transaction, lines 176-186: return result / throw e
TransactionResult(out) == out

CleanupOnSuccessOnly(c, out) ==
  IF out.kind = "ok" THEN CleanTransactionConnection(c) ELSE c

\* transaction, lines 187-189: finally { cleanTransactionConnection() }
Cleanup(c, out) == CleanTransactionConnection(c)

\* transaction, lines 172-174: register tx unless a transaction is registered already
Register(c, t) ==
  IF GetTransactionConnection(c) = Undefined THEN SetTransactionConnection(c, t) ELSE c

\* the emails are interchangeable: a new aggregate takes a used one or the first unused one
UsedEmails == {ents[a].email : a \in {b \in 1..Len(ents) : ents[b].kind = "user"}}

EmailChoices ==
  {EmailSeq[i] : i \in {j \in 1..Len(EmailSeq) : j <= Cardinality(UsedEmails) + 1}}

EmailAlwaysValid(email) == TRUE

\* the email check of UserEntity.create
EmailValid(email) == email \notin InvalidEmails

\* ------------------------------------------------------------------ actions
\* UserEntity.create(props), called before the request's top-level repository call;
\* an invalid email throws and builds nothing
CreateUserEntity(r, email) ==
  /\ stack[r] = <<>> /\ AtHandler(r)
  /\ budget[r].users > 0
  /\ email \in EmailChoices \cup InvalidEmails
  /\ IF ~EmailValid(email)
     THEN /\ ents' = ents
          /\ budget' = budget
          /\ result' = [result EXCEPT ![r] = Res("create", "err", "InvalidEmailError", 0, Undefined, FALSE)]
     ELSE /\ ents' = Append(ents, UserEntityCreate(Len(ents) + 1, r, email, "A1"))
          /\ budget' = [budget EXCEPT ![r].users = @ - 1]
          /\ result' = [result EXCEPT ![r] = Res("create", "ok", "entity", Len(ents) + 1, Undefined, FALSE)]
  /\ UNCHANGED <<committed, txs, ctx, stack, pubLog, lastOp, nestedWrites>>

\* RequestContextService.setRequestId(id), the first thing a request does
SetRequestIdCall(r, id) ==
  /\ stack[r] = <<>> /\ result[r] = NoResult
  /\ \A a \in 1..Len(ents) : ents[a].owner # r
  /\ id # GetRequestId(GetContext(r))
  /\ ctx' = [ctx EXCEPT ![CurrentRequest(r)] = SetRequestId(@, id)]
  /\ result' = [result EXCEPT ![r] = Res("setRequestId", "ok", id, 0, Undefined, FALSE)]
  /\ UNCHANGED <<committed, txs, stack, ents, pubLog, lastOp, nestedWrites, budget>>

\* UserEntity.changeAddress(newAddress)
ChangeAddress(r, a, addr) ==
  /\ AtHandler(r)
  /\ a \in 1..Len(ents)
  /\ ents[a].owner = r /\ ents[a].kind = "user"
  /\ budget[r].changes > 0
  /\ addr # ents[a].addr
  /\ ents' = [ents EXCEPT ![a] = [@ EXCEPT !.addr = addr,
                 !.events = Append(@, Event("UserAddressChanged", a, ents[a].added + 1)),
                 !.added = @ + 1]]
  /\ budget' = [budget EXCEPT ![r].changes = @ - 1]
  /\ result' = [result EXCEPT ![r] = NoResult]
  /\ UNCHANGED <<committed, txs, ctx, stack, pubLog, lastOp, nestedWrites>>

\* this.prisma.$transaction(async (tx) => { ... handler starts
BeginTx(r, svc, agg, E) ==
  LET t == Len(txs) + 1 IN
  /\ budget[r].txs > 0
  /\ txs' = Append(txs, [owner |-> r, status |-> "open", writes |-> <<>>])
  /\ ctx' = [ctx EXCEPT ![CurrentRequest(r)] = Register(@, t)]
  /\ stack' = [stack EXCEPT ![r] = Append(@, TxFrame(t, svc, agg))]
  /\ result' = [result EXCEPT ![r] = NoResult]
  /\ nestedWrites' = [nestedWrites EXCEPT ![r] = IF stack[r] = <<>> THEN {} ELSE @]
  /\ ents' = E
  /\ budget' = [budget EXCEPT ![r].txs = @ - 1, ![r].users = @ - (Len(E) - Len(ents))]
  /\ UNCHANGED <<committed, pubLog, lastOp>>

\* repo.transaction(handler) called by the caller's own code
TransactionBegin(r) ==
  /\ AtHandler(r)
  /\ BeginTx(r, "free", 0, ents)

\* CreateUserService.execute: UserEntity.create, then transaction(() => insert(user))
CreateUserExecute(r, email) ==
  /\ stack[r] = <<>> /\ AtHandler(r)
  /\ budget[r].users > 0
  /\ email \in EmailChoices \cup InvalidEmails
  /\ IF EmailValid(email)
     THEN BeginTx(r, "createUser", Len(ents) + 1,
                  Append(ents, UserEntityCreate(Len(ents) + 1, r, email, "A1")))
     ELSE /\ result' = [result EXCEPT ![r] =
                         [Res("createUser", "err", "InvalidEmailError", 0, Undefined, FALSE)
                            EXCEPT !.svc = "createUser"]]
          /\ UNCHANGED <<committed, txs, ctx, stack, ents, pubLog, lastOp, nestedWrites,
                         budget>>

\* the handler of a transaction call returns or throws; the store commits or rolls back
TransactionEnd(r, out) ==
  /\ stack[r] # <<>>
  /\ Top(r).k = "tx"
  /\ IF Top(r).svc = "free"
     THEN out \in HandlerOutcomes
     ELSE Top(r).step = "done" /\ out = Outcome(result[r].kind, result[r].val)
  /\ LET f == Top(r)
         res == TransactionResult(out)
         full == [NoResult EXCEPT !.call = "transaction", !.kind = res.kind, !.val = res.val,
                                  !.agg = f.agg, !.conn = f.t, !.svc = f.svc,
                                  !.hkind = out.kind, !.hval = out.val,
                                  !.subFailed = (f.svc # "free" /\ result[r].subFailed)]
     IN /\ ctx' = [ctx EXCEPT ![CurrentRequest(Owner(r))] = Cleanup(@, out)]
        /\ txs' = [txs EXCEPT ![f.t].status = IF out.kind = "ok" THEN "committed" ELSE "aborted",
                              ![f.t].writes = <<>>]
        /\ committed' = IF out.kind = "ok" THEN ApplyAll(committed, txs[f.t].writes) ELSE committed
        /\ stack' = [stack EXCEPT ![r] = Resume(Pop(@), full)]
        /\ result' = [result EXCEPT ![r] = full]
  /\ UNCHANGED <<ents, pubLog, lastOp, nestedWrites, budget>>

\* a repository write up to and including its store call: validate, operation();
\* E is the aggregates and S the stack of the calling thread r at the time of the call
DoWrite(r, op, a, fail, E, S) ==
  LET c == Client(GetContext(Owner(r)))
      w == ToWrite(StoreOp(op), a, E[a])
      code == IF ~Validate(E, <<a>>) THEN "ArgumentInvalid"
              ELSE IF fail THEN OtherError
              ELSE IF c # Prisma /\ txs[c].status # "open" THEN "P2028"
              ELSE StoreCode(View(c), w)
  IN /\ ~Blocked(c, w)
     /\ lastOp' = IF code = "ArgumentInvalid" THEN lastOp
                  ELSE [lastOp EXCEPT ![Owner(r)] = StoreCall(op, c, 1 - @.flip, NoArgs,
                                                       IF fail THEN "store" ELSE "none")]
     /\ IF PublishAfter(code)
        THEN /\ committed' = IF c = Prisma /\ code = "ok" THEN ApplyOp(committed, w) ELSE committed
             /\ txs' = IF c # Prisma /\ code = "ok"
                       THEN [txs EXCEPT ![c].writes = Append(@, w)] ELSE txs
             /\ ents' = [E EXCEPT ![a] = IF EventsToPublish(op, @) = <<>> THEN @ ELSE PullEvents(@)]
             /\ stack' = [stack EXCEPT ![r] =
                            Append(S, PubFrame(op, a, c, EventsToPublish(op, E[a])))]
             /\ result' = [result EXCEPT ![r] = NoResult]
             /\ nestedWrites' = [nestedWrites EXCEPT ![Owner(r)] =
                                   IF Depth(S) >= 2 /\ S[Len(S)].k = "tx" /\ code = "ok"
                                   THEN @ \cup {[agg |-> a, call |-> S[Len(S)].t]} ELSE @]
        ELSE LET o == FailureOutcome(op, code)
                 res == Res(op, o.kind, o.val, a, c, FALSE)
             IN /\ ents' = E
                /\ stack' = [stack EXCEPT ![r] = Resume(S, res)]
                /\ result' = [result EXCEPT ![r] = res]
                /\ UNCHANGED <<committed, txs, nestedWrites>>
     /\ budget' = [budget EXCEPT ![Owner(r)].ops =
                      IF \E k \in 1..Len(S) : S[k].k = "sub" THEN @ ELSE @ - 1]
     /\ UNCHANGED <<ctx, pubLog>>

\* the caller may hand aggregate a to a repository write now
MayWrite(r, a) ==
  /\ a \in 1..Len(ents)
  /\ budget[r].ops > 0
  /\ ents[a].owner = r
  /\ IF AtHandler(r) THEN TRUE
     ELSE /\ stack[r] # <<>>
          /\ Top(r).k = "tx" /\ Top(r).svc = "createUser" /\ Top(r).step = "run"
          /\ Top(r).agg = a

\* insert(entity)
Insert(r, a, fail) ==
  /\ MayWrite(r, a)
  /\ DoWrite(r, "insert", a, fail, ents, stack[r])

\* delete(entity)
Delete(r, a, fail) ==
  /\ MayWrite(r, a) /\ AtHandler(r)
  /\ DoWrite(r, "delete", a, fail, ents, stack[r])

\* updateAddress(user)
UpdateAddress(r, a, fail) ==
  /\ MayWrite(r, a) /\ AtHandler(r)
  /\ ents[a].kind = "user"
  /\ DoWrite(r, "update", a, fail, ents, stack[r])

\* the stack s once the publish step on top of it has handed its next event to the
\* event bus: the subscriber of the event, if there is one, has been called
AfterDeliver(s) ==
  LET f == s[Len(s)]
      e == Head(f.q)
      rest == [s EXCEPT ![Len(s)] = [f EXCEPT !.q = Tail(f.q)]]
  IN IF HasSubscriber(e.kind) THEN Append(rest, SubFrame(e)) ELSE rest

\* publish step: the next drained event goes to the event bus and to its subscriber
Deliver(r) ==
  /\ stack[r] # <<>>
  /\ Top(r).k = "pub" /\ Top(r).q # <<>>
  /\ LET f == Top(r)
     IN /\ pubLog' = Append(pubLog, [ev |-> Head(f.q), conn |-> f.conn, op |-> f.op])
        /\ stack' = [stack EXCEPT ![r] = AfterDeliver(@)]
  /\ UNCHANGED <<committed, txs, ctx, result, ents, lastOp, nestedWrites, budget>>

\* UserCreatedEventHandler.handle: WalletEntity.create, then walletRepo.insert(wallet)
SubscriberHandle(r, fail) ==
  /\ stack[r] # <<>>
  /\ Top(r).k = "sub" /\ Top(r).step = "run"
  /\ Top(r).ev.kind = "UserCreated"
  /\ DoWrite(r, "insert", Len(ents) + 1, fail,
             Append(ents, WalletEntityCreate(Len(ents) + 1, Owner(r), Top(r).ev.agg)),
             stack[r])

\* a subscriber of UserCreated that wraps its work in transaction(handler): the store
\* transaction is opened and registered unless one is registered already
SubscriberBeginTx(r) ==
  /\ stack[r] # <<>>
  /\ Top(r).k = "sub" /\ Top(r).step = "run"
  /\ Top(r).ev.kind = "UserCreated"
  /\ LET t == Len(txs) + 1 IN
     /\ txs' = Append(txs, [owner |-> Owner(r), status |-> "open", writes |-> <<>>])
     /\ ctx' = [ctx EXCEPT ![CurrentRequest(Owner(r))] = Register(@, t)]
     /\ stack' = [stack EXCEPT ![r] = Append(@, TxFrame(t, "wallet", Top(r).ev.agg))]
  /\ UNCHANGED <<committed, result, ents, pubLog, lastOp, nestedWrites, budget>>

\* the handler the subscriber gave to transaction(): WalletEntity.create, then
\* walletRepo.insert(wallet)
SubscriberTxInsert(r, fail) ==
  /\ stack[r] # <<>>
  /\ Top(r).k = "tx" /\ Top(r).svc = "wallet" /\ Top(r).step = "run"
  /\ DoWrite(r, "insert", Len(ents) + 1, fail,
             Append(ents, WalletEntityCreate(Len(ents) + 1, Owner(r), Top(r).agg)),
             stack[r])

\* the subscriber has returned or thrown; the publish step goes on with the next event
SubscriberEnd(r) ==
  /\ stack[r] # <<>>
  /\ Top(r).k = "sub" /\ Top(r).step = "done"
  /\ LET f == Top(r)
         s == Pop(stack[r])
         p == s[Len(s)]
     IN stack' = [stack EXCEPT ![r] =
                    [s EXCEPT ![Len(s)] = [p EXCEPT !.failed = p.failed \/ f.failed,
                                               !.err = IF f.failed THEN f.err ELSE p.err]]]
  /\ UNCHANGED <<committed, txs, ctx, result, ents, pubLog, lastOp, nestedWrites, budget>>

\* all events of the write are published: the repository call returns to its caller
WriteReturn(r) ==
  /\ stack[r] # <<>>
  /\ Top(r).k = "pub" /\ Top(r).q = <<>>
  /\ LET f == Top(r)
         o == WriteOutcome(f.op, f.failed, f.err)
         res == Res(f.op, o.kind, o.val, f.agg, f.conn, f.failed)
     IN /\ stack' = [stack EXCEPT ![r] = Resume(Pop(@), res)]
        /\ result' = [result EXCEPT ![r] = res]
  /\ UNCHANGED <<committed, txs, ctx, ents, pubLog, lastOp, nestedWrites, budget>>

\* a state of the property bag of aggregate a that entity.validate() rejects
BreakInvariant(r, a) ==
  /\ AtHandler(r)
  /\ a \in 1..Len(ents)
  /\ ents[a].owner = r /\ ents[a].valid
  /\ budget[r].changes > 0
  /\ ents' = [ents EXCEPT ![a].valid = FALSE]
  /\ budget' = [budget EXCEPT ![r].changes = @ - 1]
  /\ result' = [result EXCEPT ![r] = NoResult]
  /\ UNCHANGED <<committed, txs, ctx, stack, pubLog, lastOp, nestedWrites>>

\* the arrays of two or more aggregates of request r that insert can be given
Batches(r) ==
  LET mine == {a \in 1..Len(ents) : ents[a].owner = r /\ ents[a].kind = "user"}
  IN {as \in UNION {[1..n -> mine] : n \in 2..BatchUsers} :
        \A i, j \in 1..Len(as) : i # j => as[i] # as[j]}

\* createMany({ data: records }): one statement, all records or none
RECURSIVE BatchCode(_, _)
BatchCode(db, ws) ==
  IF ws = <<>> THEN "ok"
  ELSE IF StoreCode(db, Head(ws)) # "ok" THEN StoreCode(db, Head(ws))
  ELSE BatchCode(ApplyOp(db, Head(ws)), Tail(ws))

\* insert(entities) with more than one aggregate, up to and including createMany
InsertMany(r, as, fail) ==
  /\ AtHandler(r)
  /\ budget[r].ops > 0
  /\ as \in Batches(r)
  /\ LET c == Client(GetContext(r))
         ws == [i \in 1..Len(as) |-> ToWrite("create", as[i], ents[as[i]])]
         code == IF ~Validate(ents, as) THEN "ArgumentInvalid"
                 ELSE IF fail THEN OtherError
                 ELSE IF c # Prisma /\ txs[c].status # "open" THEN "P2028"
                 ELSE BatchCode(View(c), ws)
     IN /\ \A i \in 1..Len(ws) : ~Blocked(c, ws[i])
        /\ lastOp' = IF code = "ArgumentInvalid" THEN lastOp
                     ELSE [lastOp EXCEPT ![r] = StoreCall("insertMany", c, 1 - @.flip, NoArgs,
                                                          IF fail THEN "store" ELSE "none")]
        /\ IF PublishAfter(code)
           THEN /\ committed' = IF c = Prisma /\ code = "ok" THEN ApplyAll(committed, ws)
                                 ELSE committed
                /\ txs' = IF c # Prisma /\ code = "ok"
                          THEN [txs EXCEPT ![c].writes = @ \o ws] ELSE txs
                /\ stack' = [stack EXCEPT ![r] = Append(@, ParFrame("insert", as, c))]
                /\ result' = [result EXCEPT ![r] = NoResult]
           ELSE LET o == InsertOutcome(code)
                IN /\ result' = [result EXCEPT ![r] =
                                   [Res("insert", o.kind, o.val, as[1], c, FALSE) EXCEPT !.data = as]]
                   /\ UNCHANGED <<committed, txs, stack>>
  /\ budget' = [budget EXCEPT ![r].ops = @ - 1]
  /\ UNCHANGED <<ctx, ents, pubLog, nestedWrites>>

\* entities.map((entity) => entity.publishEvents(...)): the publish step of the next
\* aggregate of the batch is called; it drains the buffer, hands the first event to the
\* event bus and runs until it has to wait
TaskStart(r) ==
  /\ stack[r] # <<>>
  /\ Top(r).k = "par" /\ Top(r).t < Len(Top(r).q)
  /\ LET f == Top(r)
         i == f.t + 1
         a == f.q[i]
         q == EventsToPublish(f.op, ents[a])
     IN /\ ents' = [ents EXCEPT ![a] = IF q = <<>> THEN @ ELSE PullEvents(@)]
        /\ stack' = [stack EXCEPT
                       ![r] = [@ EXCEPT ![Len(@)] = [f EXCEPT !.t = i]],
                       ![TaskId(r, i)] = IF q = <<>> THEN <<>>
                                         ELSE AfterDeliver(<<PubFrame(f.op, a, f.conn, q)>>)]
        /\ pubLog' = IF q = <<>> THEN pubLog
                     ELSE Append(pubLog, [ev |-> Head(q), conn |-> f.conn, op |-> f.op])
  /\ UNCHANGED <<committed, txs, ctx, result, lastOp, nestedWrites, budget>>

\* the publish steps of a batch go on once map() has called them all
TaskRuns(th) ==
  LET r == Owner(th)
  IN /\ stack[r] # <<>>
     /\ Top(r).k = "par" /\ Top(r).t = Len(Top(r).q)

\* the publish step of one aggregate of a batch has published all its events
TaskEnd(th) ==
  /\ TaskRuns(th)
  /\ Len(stack[th]) = 1
  /\ Top(th).k = "pub" /\ Top(th).q = <<>>
  /\ LET r == Owner(th)
         f == Top(r)
     IN stack' = [stack EXCEPT
                    ![th] = <<>>,
                    ![r] = [@ EXCEPT ![Len(@)] =
                              [f EXCEPT !.failed = f.failed \/ Top(th).failed,
                                        !.err = IF Top(th).failed THEN Top(th).err ELSE f.err]]]
  /\ UNCHANGED <<committed, txs, ctx, result, ents, pubLog, lastOp, nestedWrites, budget>>

AwaitedFirstOnly(r, n) == {TaskId(r, 1)}

\* await Promise.all(...): the publish steps the write waits for
Awaited(r, n) == {TaskId(r, i) : i \in 1..n}

\* every publish step of the batch has ended: insert returns to its caller
BatchReturn(r) ==
  /\ stack[r] # <<>>
  /\ Top(r).k = "par" /\ Top(r).t = Len(Top(r).q)
  /\ \A th \in Awaited(r, Len(Top(r).q)) : stack[th] = <<>>
  /\ LET f == Top(r)
         o == WriteOutcome(f.op, f.failed, f.err)
         res == [Res(f.op, o.kind, o.val, f.q[1], f.conn, f.failed) EXCEPT !.data = f.q]
     IN /\ stack' = [stack EXCEPT ![r] = Resume(Pop(@), res)]
        /\ result' = [result EXCEPT ![r] = res]
  /\ UNCHANGED <<committed, txs, ctx, ents, pubLog, lastOp, nestedWrites, budget>>

NoIds(ids) == <<>>

\* the ids of the rows in the order the store returns them
RECURSIVE SortedIds(_)
SortedIds(ids) ==
  IF ids = {} THEN <<>>
  ELSE LET m == CHOOSE x \in ids : \A y \in ids : x <= y
       IN <<m>> \o SortedIds(ids \ {m})

SkipOnly(rows, skip, take) == SubSeq(rows, skip + 1, Len(rows))

\* findMany({ skip, take })
SkipTake(rows, skip, take) ==
  SubSeq(rows, skip + 1, IF skip + take < Len(rows) THEN skip + take ELSE Len(rows))

\* a repository read: one store call on the client of the moment, no frame
DoRead(r, op, c, args, fault, res) ==
  /\ AtHandler(r)
  /\ budget[r].ops > 0
  /\ lastOp' = [lastOp EXCEPT ![r] = StoreCall(op, c, 1 - @.flip, args, fault)]
  /\ budget' = [budget EXCEPT ![r].ops = @ - 1]
  /\ stack' = [stack EXCEPT ![r] = Resume(@, res)]
  /\ result' = [result EXCEPT ![r] = res]
  /\ UNCHANGED <<committed, txs, ctx, ents, pubLog, nestedWrites>>

FindOneByIdRethrow(fault, hit) ==
  IF fault # "none" THEN Outcome("err", OtherError)
  ELSE Outcome("ok", IF hit THEN "Some" ELSE "None")

\* findOneById, lines 27-36: Some(toDomain(record)) when findUnique returns a record,
\* None when it returns none; the catch block turns every error into None
FindOneByIdOutcome(fault, hit) ==
  Outcome("ok", IF fault = "none" /\ hit THEN "Some" ELSE "None")

\* findOneById(id): Some(aggregate) when the row is found, None otherwise and on any error
FindOneById(r, id, fault) ==
  LET c == Client(GetContext(r))
      o == FindOneByIdOutcome(fault, \E u \in View(c).users : u.id = id)
  IN DoRead(r, "findOneById", c, NoArgs, fault,
            Res("findOneById", o.kind, o.val, id, c, FALSE))

\* findAll(): every row of the table
FindAll(r, fail) ==
  LET c == Client(GetContext(r))
      rows == SortedIds({u.id : u \in View(c).users})
  IN DoRead(r, "findAll", c, NoArgs, IF fail THEN "store" ELSE "none",
            IF fail THEN Res("findAll", "err", OtherError, 0, c, FALSE)
            ELSE [Res("findAll", "ok", "rows", 0, c, FALSE) EXCEPT !.data = rows])

\* findAllPaginated(params): findMany({ skip, take }) and count()
FindAllPaginated(r, limit, offset, page, fail) ==
  LET c == Client(GetContext(r))
      rows == SortedIds({u.id : u \in View(c).users})
  IN DoRead(r, "findAllPaginated", c, Args(limit, offset, page, NoFilter),
            IF fail THEN "store" ELSE "none",
            IF fail THEN Res("findAllPaginated", "err", OtherError, 0, c, FALSE)
            ELSE [Res("findAllPaginated", "ok", "page", 0, c, FALSE) EXCEPT
                    !.data = SkipTake(rows, offset, limit), !.count = Len(rows),
                    !.limit = limit, !.page = page])

WhereAnyField(filter, row) ==
  \/ filter = NoFilter
  \/ filter.country # "" /\ AddressOf(row.addr).country = filter.country
  \/ filter.street # "" /\ AddressOf(row.addr).street = filter.street
  \/ filter.postalCode # "" /\ AddressOf(row.addr).postalCode = filter.postalCode

\* the where clause of the find-users query: a field of the query that is not empty
\* must be equal in the row
Where(filter, row) ==
  /\ filter.country # "" => AddressOf(row.addr).country = filter.country
  /\ filter.street # "" => AddressOf(row.addr).street = filter.street
  /\ filter.postalCode # "" => AddressOf(row.addr).postalCode = filter.postalCode

\* FindUsersQueryHandler.execute: findMany({ where, skip, take }) and count({ where })
\* on the prisma client itself
FindUsers(r, filter, limit, offset, page, fail) ==
  LET rows == SortedIds({u.id : u \in {x \in View(Prisma).users : Where(filter, x)}})
  IN DoRead(r, "findUsers", Prisma, Args(limit, offset, page, filter),
            IF fail THEN "store" ELSE "none",
            IF fail THEN Res("findUsers", "err", OtherError, 0, Prisma, FALSE)
            ELSE [Res("findUsers", "ok", "page", 0, Prisma, FALSE) EXCEPT
                    !.data = SkipTake(rows, offset, limit), !.count = Len(rows),
                    !.limit = limit, !.page = page])

\* the two store calls of a paginated read are issued and the caller waits for both:
\* findAllPaginated on the client of the moment without a where clause, the find-users
\* query on the prisma client itself
PaginatedBegin(r, op, filter, limit, offset, page) ==
  /\ AtHandler(r)
  /\ budget[r].ops > 0
  /\ op \in {"findAllPaginated", "findUsers"}
  /\ op = "findAllPaginated" => filter = NoFilter
  /\ LET c == IF op = "findUsers" THEN Prisma ELSE Client(GetContext(r))
     IN /\ lastOp' = [lastOp EXCEPT ![r] = StoreCall(op, c, 1 - @.flip,
                                                     Args(limit, offset, page, filter), "none")]
        /\ stack' = [stack EXCEPT ![r] = Append(@, ReadFrame(op, c))]
  /\ budget' = [budget EXCEPT ![r].ops = @ - 1]
  /\ result' = [result EXCEPT ![r] = NoResult]
  /\ UNCHANGED <<committed, txs, ctx, ents, pubLog, nestedWrites>>

\* the rows a paginated read of request r selects in the store as it is now
RowsNow(r) ==
  SortedIds({u.id : u \in {x \in View(Top(r).conn).users : Where(lastOp[r].args.filter, x)}})

\* the frame f of a paginated read has both answers: new Paginated({ data, count, limit, page })
PaginatedEnd(r, f) ==
  LET res == [Res(f.op, "ok", "page", 0, f.conn, FALSE) EXCEPT
                !.data = f.q, !.count = f.t,
                !.limit = lastOp[r].args.limit, !.page = lastOp[r].args.page]
  IN /\ stack' = [stack EXCEPT ![r] = Resume(Pop(@), res)]
     /\ result' = [result EXCEPT ![r] = res]

\* the store answers findMany({ where, skip, take })
PageQuery(r) ==
  /\ stack[r] # <<>>
  /\ Top(r).k = "read" /\ Top(r).step \in {"run", "count"}
  /\ LET f == [Top(r) EXCEPT !.q = SkipTake(RowsNow(r), lastOp[r].args.offset,
                                            lastOp[r].args.limit)]
     IN IF Top(r).step = "count" THEN PaginatedEnd(r, f)
        ELSE /\ stack' = [stack EXCEPT ![r] = [@ EXCEPT ![Len(@)] = [f EXCEPT !.step = "page"]]]
             /\ UNCHANGED result
  /\ UNCHANGED <<committed, txs, ctx, ents, pubLog, lastOp, nestedWrites, budget>>

\* the store answers count({ where })
CountQuery(r) ==
  /\ stack[r] # <<>>
  /\ Top(r).k = "read" /\ Top(r).step \in {"run", "page"}
  /\ LET f == [Top(r) EXCEPT !.t = Len(RowsNow(r))]
     IN IF Top(r).step = "page" THEN PaginatedEnd(r, f)
        ELSE /\ stack' = [stack EXCEPT ![r] = [@ EXCEPT ![Len(@)] = [f EXCEPT !.step = "count"]]]
             /\ UNCHANGED result
  /\ UNCHANGED <<committed, txs, ctx, ents, pubLog, lastOp, nestedWrites, budget>>

\* findOneByEmail(email): the aggregate, or an Error when there is no such row
FindOneByEmail(r, email, fail) ==
  LET c == Client(GetContext(r))
      hit == {u.id : u \in {x \in View(c).users : x.email = email}}
  IN DoRead(r, "findOneByEmail", c, NoArgs, IF fail THEN "store" ELSE "none",
            IF fail THEN Res("findOneByEmail", "err", OtherError, 0, c, FALSE)
            ELSE IF hit = {} THEN Res("findOneByEmail", "err", "Error", 0, c, FALSE)
            ELSE Res("findOneByEmail", "ok", "entity", CHOOSE i \in hit : TRUE, c, FALSE))

\* the request has been answered; the next request of the same client starts with a
\* request context of its own
NewRequest(r) ==
  /\ stack[r] = <<>>
  /\ result[r].call # "none"
  /\ budget[r].ops > 0
  /\ result' = [result EXCEPT ![r] = NoResult]
  /\ ctx' = [ctx EXCEPT ![r] = [requestId |-> r, transactionConnection |-> Undefined]]
  /\ UNCHANGED <<committed, txs, stack, ents, pubLog, lastOp, nestedWrites, budget>>

\* the listener of UserAddressChanged returns or throws; what it throws is the
\* record-not-found error of the store, the one error the catch block of delete singles out
SubscriberObserve(r, fail) ==
  /\ stack[r] # <<>>
  /\ Top(r).k = "sub" /\ Top(r).step = "run"
  /\ Top(r).ev.kind = "UserAddressChanged"
  /\ stack' = [stack EXCEPT ![r] = [@ EXCEPT ![Len(@)] =
                 [@ EXCEPT !.step = "done", !.failed = fail,
                           !.err = IF fail THEN "P2025" ELSE "none"]]]
  /\ UNCHANGED <<committed, txs, ctx, result, ents, pubLog, lastOp, nestedWrites, budget>>

Next ==
  \/ \E r \in Requests, email \in Emails \cup InvalidEmails : CreateUserEntity(r, email)
  \/ \E r \in Requests, a \in 1..(2 * MaxUsers), addr \in Addresses : ChangeAddress(r, a, addr)
  \/ \E r \in Requests : TransactionBegin(r)
  \/ \E r \in Requests, email \in Emails : CreateUserExecute(r, email)
  \/ \E r \in Requests, out \in HandlerOutcomes \cup
        {Outcome(k, v) : k \in {"ok", "err"}, v \in {"void", "ConflictException", OtherError}} :
        TransactionEnd(r, out)
  \/ \E r \in Requests, a \in 1..(2 * MaxUsers), fail \in BOOLEAN : Insert(r, a, fail)
  \/ \E r \in Requests, a \in 1..(2 * MaxUsers), fail \in BOOLEAN : Delete(r, a, fail)
  \/ \E r \in Requests, a \in 1..(2 * MaxUsers), fail \in BOOLEAN : UpdateAddress(r, a, fail)
  \/ \E r \in Requests : Deliver(r)
  \/ \E r \in Requests, fail \in BOOLEAN : SubscriberHandle(r, fail)
  \/ \E r \in Requests, fail \in BOOLEAN : SubscriberObserve(r, fail)
  \/ \E r \in Requests : SubscriberEnd(r)
  \/ \E r \in Requests, id \in 1..(2 * MaxUsers), fault \in Faults : FindOneById(r, id, fault)
  \/ \E r \in Requests, fail \in BOOLEAN : FindAll(r, fail)
  \/ \E r \in Requests, limit \in PageLimits, offset \in PageOffsets, page \in PageNumbers,
        fail \in BOOLEAN : FindAllPaginated(r, limit, offset, page, fail)
  \/ \E r \in Requests, email \in Emails, fail \in BOOLEAN : FindOneByEmail(r, email, fail)
  \/ \E r \in Requests : WriteReturn(r)

Spec == Init /\ [][Next]_vars

\* every repository operation, inside and outside transaction(handler) calls that may nest
NextTransactions ==
  \/ \E r \in Requests, email \in Emails : CreateUserEntity(r, email)
  \/ \E r \in Requests : TransactionBegin(r)
  \/ \E r \in Requests, out \in HandlerOutcomes : TransactionEnd(r, out)
  \/ \E r \in Requests, a \in 1..(2 * MaxUsers) : Insert(r, a, FALSE)
  \/ \E r \in Requests, a \in 1..(2 * MaxUsers) : Delete(r, a, FALSE)
  \/ \E r \in Requests, a \in 1..(2 * MaxUsers) : UpdateAddress(r, a, FALSE)
  \/ \E r \in Requests : Deliver(r)
  \/ \E r \in Requests : SubscriberHandle(r, FALSE)
  \/ \E r \in Requests : SubscriberEnd(r)
  \/ \E r \in Requests : WriteReturn(r)
  \/ \E r \in Requests, id \in 1..(2 * MaxUsers) : FindOneById(r, id, "none")
  \/ \E r \in Requests : FindAll(r, FALSE)
  \/ \E r \in Requests, page \in PageNumbers : FindAllPaginated(r, 1, 0, page, FALSE)
  \/ \E r \in Requests, email \in Emails : FindOneByEmail(r, email, FALSE)

SpecTransactions == InitTransactions /\ [][NextTransactions]_vars

\* the writes with the events they publish: business operations, the create-user
\* command, subscribers that may fail
NextEvents ==
  \/ \E r \in Requests, email \in Emails : CreateUserEntity(r, email)
  \/ \E r \in Requests, a \in 1..(2 * MaxUsers), addr \in Addresses : ChangeAddress(r, a, addr)
  \/ \E r \in Requests : TransactionBegin(r)
  \/ \E r \in Requests, email \in Emails : CreateUserExecute(r, email)
  \/ \E r \in Requests, out \in HandlerOutcomes \cup
        {Outcome(k, v) : k \in {"ok", "err"}, v \in {"void", "ConflictException", OtherError}} :
        TransactionEnd(r, out)
  \/ \E r \in Requests, a \in 1..(2 * MaxUsers), fail \in BOOLEAN : Insert(r, a, fail)
  \/ \E r \in Requests, a \in 1..(2 * MaxUsers), fail \in BOOLEAN : Delete(r, a, fail)
  \/ \E r \in Requests, a \in 1..(2 * MaxUsers), fail \in BOOLEAN : UpdateAddress(r, a, fail)
  \/ \E r \in Requests : Deliver(r)
  \/ \E r \in Requests, fail \in BOOLEAN : SubscriberHandle(r, fail)
  \/ \E r \in Requests, fail \in BOOLEAN : SubscriberObserve(r, fail)
  \/ \E r \in Requests : SubscriberEnd(r)
  \/ \E r \in Requests : WriteReturn(r)

SpecEvents == InitEvents /\ [][NextEvents]_vars

\* inserts of one and of several aggregates, valid or not, with their publish steps
NextBatch ==
  \/ \E r \in Requests, email \in Emails : CreateUserEntity(r, email)
  \/ \E r \in Requests, a \in 1..(2 * MaxUsers), addr \in Addresses : ChangeAddress(r, a, addr)
  \/ \E r \in Requests, a \in 1..(2 * MaxUsers) : BreakInvariant(r, a)
  \/ \E r \in Requests, a \in 1..(2 * MaxUsers), fail \in BOOLEAN : Insert(r, a, fail)
  \/ \E r \in Requests, a \in 1..(2 * MaxUsers), fail \in BOOLEAN : Delete(r, a, fail)
  \/ \E r \in Requests, a \in 1..(2 * MaxUsers) : UpdateAddress(r, a, FALSE)
  \/ \E r \in Requests, fail \in BOOLEAN : \E as \in Batches(r) : InsertMany(r, as, fail)
  \/ \E r \in Requests : TaskStart(r)
  \/ \E r \in Requests : Deliver(r)
  \/ \E r \in Requests, fail \in BOOLEAN : SubscriberHandle(r, fail)
  \/ \E r \in Requests : SubscriberObserve(r, FALSE)
  \/ \E r \in Requests : SubscriberEnd(r)
  \/ \E r \in Requests : WriteReturn(r)
  \/ \E th \in AllTasks : TaskRuns(th) /\ Deliver(th)
  \/ \E th \in AllTasks, fail \in BOOLEAN : TaskRuns(th) /\ SubscriberHandle(th, fail)
  \/ \E th \in AllTasks : TaskRuns(th) /\ SubscriberObserve(th, FALSE)
  \/ \E th \in AllTasks : TaskRuns(th) /\ SubscriberEnd(th)
  \/ \E th \in AllTasks : TaskRuns(th) /\ Len(stack[th]) > 1 /\ WriteReturn(th)
  \/ \E th \in AllTasks : TaskEnd(th)
  \/ \E r \in Requests : BatchReturn(r)

SpecBatch == InitBatch /\ [][NextBatch]_vars

\* reads over the users that earlier requests have stored
NextReads ==
  \/ \E r \in Requests, id \in 1..(MaxSeed + 1), fault \in Faults : FindOneById(r, id, fault)
  \/ \E r \in Requests, limit \in PageLimits, offset \in ReadOffsets, page \in ReadPages,
          fail \in BOOLEAN :
        FindAllPaginated(r, limit, offset, page, fail)
  \/ \E r \in Requests, filter \in Filters, limit \in PageLimits, offset \in ReadOffsets,
          page \in ReadPages, fail \in BOOLEAN :
        FindUsers(r, filter, limit, offset, page, fail)

SpecReads == InitReads /\ [][NextReads]_vars

\* create-user, delete and listing requests one after the other and side by side
NextListing ==
  \/ \E r \in Requests, email \in Emails \cup InvalidEmails : CreateUserExecute(r, email)
  \/ \E r \in Requests : TransactionEnd(r, Outcome(result[r].kind, result[r].val))
  \/ \E r \in Requests, a \in 1..(4 * MaxUsers) : Insert(r, a, FALSE)
  \/ \E r \in Requests, a \in 1..(4 * MaxUsers) : Delete(r, a, FALSE)
  \/ \E r \in Requests : Deliver(r)
  \/ \E r \in Requests, fail \in BOOLEAN : SubscriberHandle(r, fail)
  \/ \E r \in Requests : SubscriberEnd(r)
  \/ \E r \in Requests : WriteReturn(r)
  \/ \E r \in Requests : NewRequest(r)
  \/ \E r \in Requests : FindAll(r, FALSE)
  \/ \E r \in Requests, limit \in PageLimits : FindUsers(r, NoFilter, limit, 0, 0, FALSE)

SpecListing == InitListing /\ [][NextListing]_vars

\* address changes and updateAddress calls on stored and on unknown users
NextAddress ==
  \/ \E r \in Requests, email \in Emails : CreateUserEntity(r, email)
  \/ \E r \in Requests, a \in 1..(2 * AddrSeed + AddrUsers), addr \in Addresses :
        ChangeAddress(r, a, addr)
  \/ \E r \in Requests, a \in 1..(2 * AddrSeed + AddrUsers), fail \in BOOLEAN :
        UpdateAddress(r, a, fail)
  \/ \E r \in Requests : Deliver(r)
  \/ \E r \in Requests : SubscriberObserve(r, FALSE)
  \/ \E r \in Requests : SubscriberEnd(r)
  \/ \E r \in Requests : WriteReturn(r)
  \/ \E r \in Requests : NewRequest(r)

SpecAddress == InitAddress /\ [][NextAddress]_vars

\* a paginated read of one request side by side with the inserts and deletes of another
NextPaging ==
  \/ \E r \in Requests, email \in Emails : CreateUserEntity(r, email)
  \/ \E r \in Requests, a \in 1..(2 * PagingUsers) : Insert(r, a, FALSE)
  \/ \E r \in Requests, a \in 1..(2 * PagingUsers) : Delete(r, a, FALSE)
  \/ \E r \in Requests : Deliver(r)
  \/ \E r \in Requests : SubscriberHandle(r, FALSE)
  \/ \E r \in Requests : SubscriberEnd(r)
  \/ \E r \in Requests : WriteReturn(r)
  \/ \E r \in Requests : NewRequest(r)
  \/ \E r \in Requests, limit \in PageLimits, offset \in PageOffsets :
        PaginatedBegin(r, "findAllPaginated", NoFilter, limit, offset, 0)
  \/ \E r \in Requests, filter \in {f \in Filters : f.street = "" /\ f.postalCode = ""},
          limit \in PageLimits :
        PaginatedBegin(r, "findUsers", filter, limit, 0, 0)
  \/ \E r \in Requests : PageQuery(r)
  \/ \E r \in Requests : CountQuery(r)

SpecPaging == InitPaging /\ [][NextPaging]_vars

\* one insert of several users whose created events go to subscribers that each call
\* transaction(() => walletRepo.insert(wallet))
NextConcurrent ==
  \/ \E r \in Requests, email \in Emails : CreateUserEntity(r, email)
  \/ \E r \in Requests : \E as \in Batches(r) : InsertMany(r, as, FALSE)
  \/ \E r \in Requests : TaskStart(r)
  \/ \E th \in AllTasks : TaskRuns(th) /\ SubscriberBeginTx(th)
  \/ \E th \in AllTasks : TaskRuns(th) /\ SubscriberTxInsert(th, FALSE)
  \/ \E th \in AllTasks : TaskRuns(th) /\ Deliver(th)
  \/ \E th \in AllTasks : TaskRuns(th) /\ Len(stack[th]) > 1 /\ WriteReturn(th)
  \/ \E th \in AllTasks :
        TaskRuns(th) /\ TransactionEnd(th, Outcome(result[th].kind, result[th].val))
  \/ \E th \in AllTasks : TaskRuns(th) /\ SubscriberEnd(th)
  \/ \E th \in AllTasks : TaskEnd(th)
  \/ \E r \in Requests : BatchReturn(r)

SpecConcurrent == InitConcurrent /\ [][NextConcurrent]_vars

\* two requests at the same time: what they set and clean in the request context
NextContext ==
  \/ \E r \in Requests, id \in RequestIds : SetRequestIdCall(r, id)
  \/ \E r \in Requests : TransactionBegin(r)
  \/ \E r \in Requests, out \in HandlerOutcomes : TransactionEnd(r, out)

SpecContext == InitContext /\ [][NextContext]_vars

\* two requests at the same time: inserts and the create-user command
NextRequests ==
  \/ \E r \in Requests, email \in Emails : CreateUserEntity(r, email)
  \/ \E r \in Requests, email \in Emails : CreateUserExecute(r, email)
  \/ \E r \in Requests, out \in
        {Outcome(k, v) : k \in {"ok", "err"}, v \in {"void", "ConflictException"}} :
        TransactionEnd(r, out)
  \/ \E r \in Requests, a \in 1..(4 * MaxUsers) : Insert(r, a, FALSE)
  \/ \E r \in Requests : Deliver(r)
  \/ \E r \in Requests : SubscriberHandle(r, FALSE)
  \/ \E r \in Requests : SubscriberEnd(r)
  \/ \E r \in Requests : WriteReturn(r)

SpecRequests == InitRequests /\ [][NextRequests]_vars

\* ------------------------------------------------------------------ claims
UserPersisted(a) == \E u \in committed.users : u.id = a

WalletPersistedFor(a) == \E x \in committed.wallets : x.userId = a

RowPersisted(a) ==
  IF ents[a].kind = "user" THEN UserPersisted(a) ELSE \E x \in committed.wallets : x.id = a

\* the outermost transaction call of request r, or its create-user command, has ended
OutermostEnded(r) == stack[r] = <<>> /\ result[r].call = "transaction"

OpenTransactions(r) ==
  {t \in 1..Len(txs) : txs[t].owner = r /\ txs[t].status = "open"}

\* C1: when the outer transaction(handler) call has failed after two writes that were
\* each wrapped in a nested transaction(...) call, neither write is persisted.
C1_NestedWritesRolledBack ==
  \A r \in Requests :
    (OutermostEnded(r) /\ result[r].kind = "err")
      => \A w1, w2 \in nestedWrites[r] :
           (w1.call # w2.call /\ w1.agg # w2.agg)
             => ~RowPersisted(w1.agg) /\ ~RowPersisted(w2.agg)

\* C2: a request never has more than one store-level transaction open: a nested
\* transaction(handler) call opens no second one.
C2_OnePhysicalTransaction ==
  \A r \in Requests : Cardinality(OpenTransactions(r)) <= 1

\* C3: while the handler of the outermost transaction call runs, the ambient handle
\* of the request is the handle of that call, also after a nested call has returned.
C3_AmbientIsOutermost ==
  \A r \in Requests :
    stack[r] # <<>> /\ stack[r][1].k = "tx"
      => GetTransactionConnection(ctx[r]) = stack[r][1].t

\* C4: after an outermost transaction call has finished the ambient handle is unset,
\* and the call has returned what the handler returned or rethrown what it threw.
C4_CleanAfterOutermost ==
  \A r \in Requests :
    OutermostEnded(r)
      => /\ GetTransactionConnection(ctx[r]) = Undefined
         /\ result[r].kind = result[r].hkind
         /\ result[r].val = result[r].hval

C4_Witness ==
  \E r \in Requests :
    /\ OutermostEnded(r) /\ result[r].kind = "err" /\ result[r].val = "E1"
    /\ \E t \in 1..Len(txs) : txs[t].status = "aborted"

\* C5: every store call of a repository operation runs on the ambient transaction
\* handle registered at the time of the call, and on the pooled connection when none is.
C5_ConnectionSelection ==
  [][\A r \in Requests :
       lastOp'[r] # lastOp[r]
         => lastOp'[r].conn = IF GetTransactionConnection(ctx[r]) # Undefined
                              THEN GetTransactionConnection(ctx[r]) ELSE Prisma]_vars

C5_Witness ==
  \E r \in Requests :
    /\ lastOp[r].op = "findOneById" /\ lastOp[r].conn >= 1
    /\ result[r].call = "findOneById" /\ result[r].val = "Some"
    /\ ~UserPersisted(result[r].agg)

\* C11: a step in which the code of request b has not moved leaves what getRequestId
\* and getTransactionConnection return in b as they were, whatever another request
\* has set or cleaned in that step.
C11_ContextIsolated ==
  [][\A b \in Requests :
       (stack'[b] = stack[b] /\ result'[b] = result[b])
         => /\ GetRequestId(ctx'[b]) = GetRequestId(ctx[b])
            /\ GetTransactionConnection(ctx'[b]) = GetTransactionConnection(ctx[b])]_vars

C11_Witness ==
  /\ GetTransactionConnection(ctx["r1"]) # Undefined
  /\ GetTransactionConnection(ctx["r2"]) # Undefined
  /\ GetTransactionConnection(ctx["r1"]) # GetTransactionConnection(ctx["r2"])
  /\ GetRequestId(ctx["r1"]) = "id1" /\ GetRequestId(ctx["r2"]) = "id2"

\* the store call of an insert has just been made by request r
InsertCalled(r) == lastOp'[r] # lastOp[r] /\ lastOp'[r].op = "insert"

\* C12: an insert of a user whose email is the email of a record on the connection of
\* the insert fails with ConflictException and changes nothing, so that exactly one
\* record with that email is left; an insert without such a record raises no conflict.
C12_ConflictOnCollision ==
  [][\A r \in Requests :
       (InsertCalled(r) /\ lastOp'[r].fault = "none")
         => LET conflict == result'[r].call = "insert" /\ result'[r].kind = "err"
                            /\ result'[r].val = "ConflictException"
                a == IF result'[r].call = "insert" THEN result'[r].agg
                     ELSE stack'[r][Len(stack'[r])].agg
                same == {u \in View(lastOp'[r].conn).users : u.email = ents'[a].email}
            IN ents'[a].kind = "user"
                 => IF same # {}
                    THEN /\ conflict /\ Cardinality(same) = 1
                         /\ committed' = committed /\ txs' = txs /\ pubLog' = pubLog
                    ELSE ~conflict]_vars

C12_Witness ==
  \E r \in Requests :
    /\ result[r].call = "insert" /\ result[r].val = "ConflictException"
    /\ \E u \in committed.users :
         /\ u.email = ents[result[r].agg].email /\ u.id # result[r].agg
         /\ ents[u.id].owner # r

\* the store call of a delete has just been made by request r
DeleteCalled(r) == lastOp'[r] # lastOp[r] /\ lastOp'[r].op = "delete"

HasRow(db, a) ==
  IF ents[a].kind = "user" THEN \E u \in db.users : u.id = a
  ELSE \E x \in db.wallets : x.id = a

\* C13: a delete whose store call finds no record with the id returns false, without
\* throwing and without changing a record; one that finds the record removes it, and
\* when it has returned true the record does not exist on its connection.
C13_DeleteReportsExistence ==
  /\ [][\A r \in Requests :
          (DeleteCalled(r) /\ lastOp'[r].fault = "none")
            => LET returned == result'[r].call = "delete"
                   a == IF returned THEN result'[r].agg ELSE stack'[r][Len(stack'[r])].agg
               IN IF HasRow(View(lastOp'[r].conn), a)
                  THEN ~returned /\ ~HasRow(ViewOf(committed', txs', lastOp'[r].conn), a)
                  ELSE /\ returned /\ result'[r].kind = "ok" /\ result'[r].val = "false"
                       /\ committed' = committed /\ txs' = txs /\ pubLog' = pubLog]_vars
  /\ [](\A r \in Requests :
          (result[r].call = "delete" /\ result[r].kind = "ok")
            => /\ result[r].val \in {"true", "false"}
               /\ ~HasRow(View(result[r].conn), result[r].agg))

C13_Witness ==
  \E r \in Requests :
    /\ result[r].call = "delete" /\ result[r].kind = "ok" /\ result[r].val = "true"
    /\ ~HasRow(View(result[r].conn), result[r].agg)
    /\ ents[result[r].agg].events = <<>>

\* the rows that a step creates, changes or removes
RowsTouched ==
  LET U(db) == db.users
      W(db) == db.wallets
      before == [t \in 0..Len(txs) |-> ViewOf(committed, txs, t)]
      after == [t \in 0..Len(txs) |-> ViewOf(committed', txs', t)]
  IN UNION {((U(before[t]) \ U(after[t])) \cup (U(after[t]) \ U(before[t]))
             \cup (W(before[t]) \ W(after[t])) \cup (W(after[t]) \ W(before[t])))
            : t \in 0..Len(txs)}

Rejected(r) == result'[r] # result[r] /\ result'[r].val = "ArgumentInvalid"

\* C14: insert, updateAddress and delete validate every aggregate they are given before
\* any store call: a write rejected by validation makes no store call, changes no record
\* and publishes nothing, a write given an invalid aggregate (alone or as one member of a
\* batch) is rejected, and no step creates, changes or removes the record or publishes an
\* event of an aggregate that fails its validation.
C14_InvalidNeverWritten ==
  [][/\ \A r \in Requests :
          Rejected(r) => /\ committed' = committed /\ txs' = txs
                         /\ pubLog' = pubLog /\ lastOp' = lastOp
     /\ \A r \in Requests :
          (result'[r] # result[r] /\ result'[r].call \in {"insert", "update", "delete"}
             /\ \E a \in {result'[r].agg} \cup {result'[r].data[i] : i \in 1..Len(result'[r].data)} :
                   ~ents'[a].valid)
            => Rejected(r)
     /\ \A row \in RowsTouched : ents'[row.id].valid
     /\ pubLog' # pubLog => ents'[pubLog'[Len(pubLog')].ev.agg].valid]_vars

C14_Witness ==
  \E r \in Requests :
    /\ result[r].call = "insert" /\ result[r].val = "ArgumentInvalid"
    /\ Len(result[r].data) = 2
    /\ ents[result[r].data[1]].valid /\ ~ents[result[r].data[2]].valid
    /\ committed.users = {} /\ pubLog = <<>>
    /\ lastOp[r].op = "none"

\* the aggregates an insert was given
Inserted(res) == IF res.data = <<>> THEN {res.agg} ELSE {res.data[i] : i \in 1..Len(res.data)}

Published(a, n) == \E i \in 1..Len(pubLog) : pubLog[i].ev.agg = a /\ pubLog[i].ev.n = n

\* a publish step or a subscriber of an event of aggregate a has not ended
Handling(a) ==
  \E th \in Threads : \E k \in 1..Len(stack[th]) :
    \/ stack[th][k].k = "pub" /\ stack[th][k].agg = a
    \/ stack[th][k].k = "sub" /\ stack[th][k].ev.agg = a

\* C15: whenever insert has returned to its caller without throwing, every event added
\* to every inserted aggregate has been published, the buffers are empty, and no publish
\* step and no subscriber of these events is still running.
C15_InsertWaitsForEvents ==
  \A r \in Requests :
    (result[r].call = "insert" /\ result[r].kind = "ok")
      => \A a \in Inserted(result[r]) :
           /\ \A n \in 1..ents[a].added : Published(a, n)
           /\ ents[a].events = <<>>
           /\ ~Handling(a)

C15_Witness ==
  \E r \in Requests :
    /\ result[r].call = "insert" /\ result[r].kind = "ok"
    /\ Len(result[r].data) = 2
    /\ \E a \in Inserted(result[r]) : ents[a].added = 2
    /\ \A a \in Inserted(result[r]) :
         /\ \E u \in committed.users : u.id = a
         /\ \E x \in committed.wallets : x.userId = a
    /\ Len(pubLog) = 5

\* the publish step of the aggregate at index i of the batch of r has ended
TaskDone(r, i) == i <= Top(r).t /\ stack[TaskId(r, i)] = <<>>

\* C16 as stated: during an insert of several aggregates, when an event of the
\* aggregate at index j is published, the publish step of every aggregate at an index
\* i < j has ended: all its events are published and their subscribers have returned.
C16_ArrayOrder ==
  \A r \in Requests :
    (stack[r] # <<>> /\ Top(r).k = "par")
      => \A i, j \in 1..Len(Top(r).q) :
           (i < j /\ \E k \in 1..Len(pubLog) : pubLog[k].ev.agg = Top(r).q[j])
             => TaskDone(r, i)

Matching(c, args) ==
  {u.id : u \in {x \in View(c).users : Where(args.filter, x)}}

PageReturned(r) ==
  /\ lastOp'[r] # lastOp[r]
  /\ lastOp'[r].op \in {"findAllPaginated", "findUsers"}
  /\ result'[r].kind = "ok"

\* C18: a paginated read (findAllPaginated, find-users query) returns as count the number
\* of all matching rows whatever the page, at most limit records in data, each a matching
\* row and none twice, as many as are left after the offset, and the limit and the page
\* it was given.
C18_Pagination ==
  [][\A r \in Requests :
       PageReturned(r)
         => LET args == lastOp'[r].args
                res == result'[r]
                all == Matching(lastOp'[r].conn, args)
                left == IF Cardinality(all) > args.offset
                        THEN Cardinality(all) - args.offset ELSE 0
            IN /\ res.count = Cardinality(all)
               /\ Len(res.data) <= args.limit
               /\ Len(res.data) = IF left < args.limit THEN left ELSE args.limit
               /\ \A i \in 1..Len(res.data) : res.data[i] \in all
               /\ \A i, j \in 1..Len(res.data) : i # j => res.data[i] # res.data[j]
               /\ res.limit = args.limit /\ res.page = args.page
               /\ committed' = committed /\ txs' = txs]_vars

\* limit 2, page 1 over 5 records gives 2 records and count 5
C18_Witness ==
  \E r \in Requests :
    /\ result[r].call = "findAllPaginated" /\ result[r].kind = "ok"
    /\ Cardinality(committed.users) = 5
    /\ lastOp[r].args.limit = 2 /\ lastOp[r].args.page = 1 /\ lastOp[r].args.offset = 2
    /\ result[r].count = 5 /\ Len(result[r].data) = 2
    /\ result[r].limit = 2 /\ result[r].page = 1

FindOneByIdCalled(r) == lastOp'[r] # lastOp[r] /\ lastOp'[r].op = "findOneById"

\* C19: findOneById never throws: when the store call or the translation of the record
\* fails it returns the empty option, otherwise it returns the aggregate exactly when a
\* record with the id exists on its connection; it changes no record and publishes
\* nothing.
C19_FindOneByIdNeverThrows ==
  [][\A r \in Requests :
       FindOneByIdCalled(r)
         => LET hit == \E u \in View(lastOp'[r].conn).users : u.id = result'[r].agg
            IN /\ result'[r].call = "findOneById" /\ result'[r].kind = "ok"
               /\ result'[r].val \in {"Some", "None"}
               /\ lastOp'[r].fault # "none" => result'[r].val = "None"
               /\ lastOp'[r].fault = "none" => (result'[r].val = "Some" <=> hit)
               /\ committed' = committed /\ txs' = txs
               /\ pubLog' = pubLog /\ ents' = ents]_vars

C19_Witness ==
  \E r \in Requests :
    /\ result[r].call = "findOneById" /\ result[r].kind = "ok" /\ result[r].val = "None"
    /\ lastOp[r].fault = "mapper"
    /\ \E u \in View(result[r].conn).users : u.id = result[r].agg

StoreCallFailed(r) ==
  /\ lastOp'[r] # lastOp[r]
  /\ lastOp'[r].op \in {"insert", "delete"}
  /\ lastOp'[r].fault = "store"

\* C20: when the store call of insert or of delete fails with an error that is neither
\* the unique-constraint violation nor the record-not-found signal, the call ends at once
\* and throws that same error to its caller: no ConflictException, no result false, no
\* record changed, no publish step started and no event published.
C20_OtherErrorsPropagate ==
  [][\A r \in Requests :
       StoreCallFailed(r)
         => /\ result'[r].call = lastOp'[r].op
            /\ result'[r].kind = "err" /\ result'[r].val = OtherError
            /\ committed' = committed /\ txs' = txs
            /\ pubLog' = pubLog
            /\ Len(stack'[r]) <= Len(stack[r])
            /\ \A k \in 1..Len(stack'[r]) : stack'[r][k].k = stack[r][k].k
            /\ \A a \in 1..Len(ents) : ents'[a] = ents[a]]_vars

C20_Witness ==
  \E r \in Requests :
    /\ result[r].call = "delete" /\ result[r].kind = "err" /\ result[r].val = OtherError
    /\ lastOp[r].op = "delete" /\ lastOp[r].fault = "store"
    /\ HasRow(View(result[r].conn), result[r].agg)
    /\ pubLog # <<>>

CreateUserEnded(r) == OutermostEnded(r) /\ result[r].svc = "createUser"

CreateUserSucceeded(r) == CreateUserEnded(r) /\ result[r].kind = "ok"

WalletRowsOf(u) == {x \in committed.wallets : x.userId = u}

Databases ==
  {committed} \cup {View(t) : t \in {c \in 1..Len(txs) : txs[c].status = "open"}}

\* C22: after any sequence of create-user and delete operations every wallet record names
\* a user that exists, and no user has more than one wallet: deleting a user deletes its
\* wallet.
C22_NoOrphanWallet ==
  \A db \in Databases :
    /\ \A x \in db.wallets : \E u \in db.users : u.id = x.userId
    /\ \A x, y \in db.wallets : x.userId = y.userId => x = y

C22_Witness ==
  \E r \in Requests : \E u \in 1..Len(ents) :
    /\ OutermostEnded(r) /\ result[r].kind = "ok"
    /\ ents[u].kind = "user"
    /\ \E i \in 1..Len(pubLog) :
         pubLog[i].ev.kind = "WalletCreated" /\ ents[pubLog[i].ev.agg].userId = u
    /\ lastOp[r].op = "delete" /\ lastOp[r].fault = "none"
    /\ committed.users = {} /\ committed.wallets = {}

Listed(r) ==
  /\ lastOp'[r] # lastOp[r]
  /\ lastOp'[r].op \in {"findAll", "findUsers"}
  /\ lastOp'[r].args.filter = NoFilter
  /\ result'[r].kind = "ok"

\* the user record u is removed by this step: a delete of u on the default connection,
\* or the commit of a transaction that has deleted u
DeletedNow(u) ==
  \/ \E r \in Requests :
       /\ lastOp'[r] # lastOp[r]
       /\ lastOp'[r].op = "delete" /\ lastOp'[r].conn = Prisma
       /\ stack'[r] # <<>> /\ stack'[r][Len(stack'[r])].agg = u
  \/ \E t \in 1..Len(txs) :
       /\ txs[t].status = "open" /\ txs'[t].status = "committed"
       /\ \E i \in 1..Len(txs[t].writes) :
            txs[t].writes[i].op = "delete" /\ txs[t].writes[i].id = u

FindUsersReturned(r) ==
  /\ lastOp'[r] # lastOp[r]
  /\ lastOp'[r].op = "findUsers"
  /\ result'[r].kind = "ok"

\* the stored users whose country, street and postalCode are those of the filter f,
\* wherever f gives one
Filtered(f) ==
  {u \in committed.users :
     /\ f.country = "" \/ AddressOf(u.addr).country = f.country
     /\ f.street = "" \/ AddressOf(u.addr).street = f.street
     /\ f.postalCode = "" \/ AddressOf(u.addr).postalCode = f.postalCode}

\* C24: the find-users query returns stored users that match every filter it is given
\* and no others, all of them when the page is not cut by offset and limit; an empty
\* filter constrains nothing; count is the number of the users that match; the query
\* changes no record, no aggregate and publishes nothing.
C24_FindUsersFilters ==
  [][\A r \in Requests :
       FindUsersReturned(r)
         => LET args == lastOp'[r].args
                ids == {u.id : u \in Filtered(args.filter)}
                data == {result'[r].data[i] : i \in 1..Len(result'[r].data)}
            IN /\ data \subseteq ids
               /\ (args.offset = 0 /\ args.limit >= Cardinality(ids)) => data = ids
               /\ result'[r].count = Cardinality(ids)
               /\ args.filter = NoFilter => result'[r].count = Cardinality(committed.users)
               /\ committed' = committed /\ txs' = txs
               /\ ents' = ents /\ pubLog' = pubLog]_vars

C24_Witness ==
  \E r \in Requests :
    /\ result[r].call = "findUsers" /\ result[r].kind = "ok"
    /\ lastOp[r].args.filter = [country |-> "England", street |-> "Road1", postalCode |-> ""]
    /\ lastOp[r].args.offset = 0
    /\ result[r].count = 2 /\ Len(result[r].data) = 2
    /\ Cardinality(committed.users) = 4

CreateUserRejected(r) ==
  /\ result'[r] # result[r]
  /\ result'[r].call = "createUser" /\ result'[r].kind = "err"

\* every user record, stored or pending in a transaction
AllUserRows == UNION {db.users : db \in Databases}

DeleteReturned(r) ==
  /\ result'[r] # result[r]
  /\ result'[r].call = "delete"

RunningHandlers == {<<th, k>> \in Threads \X (1..4) : k <= Len(stack[th]) /\ stack[th][k].k = "tx"}

\* C27 as stated: while the handler of a transaction(handler) call of a request is
\* running, the ambient handle of the request is set, and every write issued inside the
\* handler runs on a transaction, never on the default connection, also when other
\* transaction(handler) calls of the request run at the same time and end earlier.
C27_HandleKeptWhileHandlerRuns ==
  \A h \in RunningHandlers :
    LET th == h[1]
        k == h[2]
    IN /\ GetTransactionConnection(ctx[Owner(th)]) # Undefined
       /\ \A j \in (k + 1)..Len(stack[th]) :
            stack[th][j].k = "pub" => stack[th][j].conn # Prisma

\* a write of thread th ends without effect: insert throws, or delete returns false
WriteWithoutEffect(th) ==
  /\ result'[th] # result[th]
  /\ \/ result'[th].call = "insert" /\ result'[th].kind = "err"
     \/ result'[th].call = "delete" /\ result'[th].val = "false"

\* C28: when insert fails, for one aggregate or a batch, with ConflictException or any
\* other error, or delete returns false, the call has persisted no record, published no
\* event and invoked no subscriber, and the events of its aggregates are still in their
\* buffers.
C28_FailedWritePublishesNothing ==
  [][/\ \A th \in Threads :
          WriteWithoutEffect(th)
            => /\ committed' = committed /\ txs' = txs
               /\ pubLog' = pubLog
               /\ Len(stack'[th]) <= Len(stack[th])
               /\ \A k \in 1..Len(stack'[th]) : stack'[th][k].k = stack[th][k].k
               /\ \A a \in 1..Len(ents) : ents'[a] = ents[a]
               /\ \A a \in Inserted(result'[th]) :
                    /\ Len(ents'[a].events) = ents'[a].added
                    /\ \A n \in 1..ents'[a].added : ~Published(a, n)
     /\ \A r \in Requests :
          (/\ lastOp'[r] # lastOp[r] /\ lastOp'[r].fault = "store"
           /\ lastOp'[r].op \in {"insert", "insertMany", "delete"})
            => /\ committed' = committed /\ txs' = txs
               /\ pubLog' = pubLog
               /\ \A th \in Threads : Len(stack'[th]) <= Len(stack[th])
               /\ \A a \in 1..Len(ents) : ents'[a] = ents[a]]_vars

C28_Witness ==
  \E r \in Requests :
    /\ result[r].call = "insert" /\ result[r].kind = "err"
    /\ result[r].val = "ConflictException"
    /\ Len(result[r].data) = 2
    /\ \A a \in Inserted(result[r]) : ents[a].events # <<>>
    /\ committed.users = {} /\ pubLog = <<>>

\* C30: the store call of updateAddress(user) changes nothing but the address of the
\* record whose id is user.id, which becomes the address of the aggregate: that record
\* keeps its id and email, and every other user record and every wallet record stays
\* as it was. When no record has that id, or the store call fails, no record changes
\* and the call ends with an error.
C30_UpdateAddressFrame ==
  [][\A r \in Requests :
       lastOp'[r] # lastOp[r] /\ lastOp'[r].op = "update"
         => LET c == lastOp'[r].conn
                before == View(c)
                after == ViewOf(committed', txs', c)
                started == Len(stack'[r]) > Len(stack[r])
                a == IF started THEN stack'[r][Len(stack'[r])].agg ELSE result'[r].agg
                hit == {u \in before.users : u.id = a}
            IN /\ after.wallets = before.wallets
               /\ \A u \in before.users : u.id # a => u \in after.users
               /\ Cardinality(after.users) = Cardinality(before.users)
               /\ \A u \in hit : lastOp'[r].fault = "none"
                    => [u EXCEPT !.addr = ents[a].addr] \in after.users
               /\ hit = {} \/ lastOp'[r].fault = "store"
                    => after = before /\ ~started /\ result'[r].kind = "err"
               /\ c = Prisma \/ committed' = committed]_vars

C30_Witness ==
  \E r \in Requests :
    /\ lastOp[r].op = "update" /\ lastOp[r].fault = "none"
    /\ result[r].call = "update" /\ result[r].kind = "ok"
    /\ Cardinality(committed.users) = 2 /\ Cardinality(committed.wallets) = 2
    /\ \E i \in 1..Len(pubLog) : pubLog[i].ev.kind = "UserAddressChanged"
    /\ \E u \in committed.users : u.id = result[r].agg /\ u.addr = ents[u.id].addr

\* C29 as stated: the data of a paginated read never holds more records than its count
C29_DataWithinCount ==
  \A r \in Requests :
    result[r].call \in {"findAllPaginated", "findUsers"} /\ result[r].kind = "ok"
      => Len(result[r].data) <= result[r].count

WriteConns(kind, aggs) ==
  {pubLog[i].conn : i \in {j \in 1..Len(pubLog) :
                             pubLog[j].ev.kind = kind /\ pubLog[j].ev.agg \in aggs}}

WalletsOf(u) == {w \in 1..Len(ents) : ents[w].kind = "wallet" /\ ents[w].userId = u}

C7_PublishedAfterCommit ==
  \A i \in 1..Len(pubLog) :
    pubLog[i].conn = Prisma \/ txs[pubLog[i].conn].status = "committed"

\* the store write of a publishing repository call is visible on its connection
WriteApplied(f) ==
  LET db == View(f.conn)
      rows == IF ents[f.agg].kind = "user" THEN db.users ELSE db.wallets
  IN CASE f.op = "insert" -> \E x \in rows : x.id = f.agg
       [] f.op = "delete" -> ~ \E x \in rows : x.id = f.agg
       [] OTHER -> \E x \in rows : x.id = f.agg /\ x.addr = ents[f.agg].addr

\* C7, amended: the events of a write are published, and its subscribers run, only
\* after the store write has been executed on the connection the write ran on; inside
\* transaction(handler) that is before the commit.
C7_PublishedAfterWrite ==
  \A r \in Requests : \A i \in 1..Len(stack[r]) :
    stack[r][i].k = "pub" => WriteApplied(stack[r][i])

C7_Witness ==
  \E r \in Requests : \E i \in 1..Len(stack[r]) :
    /\ stack[r][i].k = "pub" /\ stack[r][i].conn >= 1
    /\ txs[stack[r][i].conn].status = "open"
    /\ i < Len(stack[r]) /\ stack[r][i + 1].k = "sub"
    /\ \E j \in 1..Len(pubLog) : pubLog[j].ev = stack[r][i + 1].ev

WriteSucceeded(r) ==
  /\ result[r].call \in {"insert", "delete", "update"}
  /\ result[r].kind = "ok" /\ result[r].val # "false"

TimesPublished(a, n) ==
  Cardinality({i \in 1..Len(pubLog) : pubLog[i].ev.agg = a /\ pubLog[i].ev.n = n})

\* C9: no event is published twice, and when a write of an aggregate has succeeded
\* every event added to the aggregate so far has been published exactly once.
C9_ExactlyOnce ==
  /\ \A a \in 1..Len(ents) : \A n \in 1..ents[a].added : TimesPublished(a, n) <= 1
  /\ \A r \in Requests :
       WriteSucceeded(r)
         => \A n \in 1..ents[result[r].agg].added : TimesPublished(result[r].agg, n) = 1

C9_Witness ==
  \E r \in Requests :
    /\ WriteSucceeded(r) /\ result[r].call = "update"
    /\ ents[result[r].agg].added = 2
    /\ Len(pubLog) >= 2

\* C10: the aggregate returned by the factory has exactly one buffered event, of the
\* created kind, and after a successful insert of it its event buffer is empty.
C10_OneCreatedEvent ==
  \A r \in Requests :
    /\ (result[r].call = "create" /\ result[r].kind = "ok")
         => /\ Len(ents[result[r].agg].events) = 1
            /\ ents[result[r].agg].events[1].kind = "UserCreated"
            /\ ents[result[r].agg].events[1].agg = result[r].agg
    /\ (result[r].call = "insert" /\ result[r].kind = "ok")
         => ents[result[r].agg].events = <<>>

C10_Witness ==
  \E r \in Requests :
    /\ result[r].call = "insert" /\ result[r].kind = "ok"
    /\ ents[result[r].agg].kind = "user" /\ ents[result[r].agg].added = 1
    /\ TimesPublished(result[r].agg, 1) = 1

====
